---- MODULE Spec2Model ----
(***************************************************************************)
(* Model of the Power BI -> Glean connector (src/main.py).                 *)
(*                                                                         *)
(* One Flask process hosts a BackgroundScheduler job and the /sync route.  *)
(* Both call sync_powerbi_to_glean(), which walks reports -> tables ->     *)
(* rows and posts one document per row to the index.  Text is modelled as  *)
(* a sequence of one-character strings so that prefix tests, joins and     *)
(* concatenations are computed, not assumed.                               *)
(***************************************************************************)
EXTENDS Integers, Sequences, FiniteSets, TLC

(***************************************************************************)
(* Bounds of the model.                                                    *)
(***************************************************************************)
\* runs started in one behaviour (scheduled and on-demand together)
MaxRuns == 2
\* reports returned by the workspace's report list
MaxReports == 2

(***************************************************************************)
(* Program constants.                                                      *)
(***************************************************************************)
HTTP_OK == 200
DATASOURCE == "powerbiconductor"
TARGET_WORKSPACE_NAME == <<"S", "u", "p", "e", "r", "s", "t", "o", "r", "e">>
SystemPrefix ==
    <<"D", "a", "t", "e", "T", "a", "b", "l", "e",
      "T", "e", "m", "p", "l", "a", "t", "e">>

(***************************************************************************)
(* Text helpers (Python str semantics on character sequences).             *)
(***************************************************************************)
\* s.startswith(p)
StartsWith(s, p) == Len(s) >= Len(p) /\ SubSeq(s, 1, Len(p)) = p

RECURSIVE Join(_, _)
\* sep.join(parts)
Join(sep, parts) ==
    IF parts = <<>> THEN <<>>
    ELSE IF Len(parts) = 1 THEN parts[1]
    ELSE parts[1] \o sep \o Join(sep, Tail(parts))

DigitChar(d) ==
    CASE d = 0 -> "0" [] d = 1 -> "1" [] d = 2 -> "2" [] d = 3 -> "3"
      [] d = 4 -> "4" [] d = 5 -> "5" [] d = 6 -> "6" [] d = 7 -> "7"
      [] d = 8 -> "8" [] d = 9 -> "9"

RECURSIVE Digits(_)
\* str(n) for a non-negative int
Digits(n) ==
    IF n < 10 THEN <<DigitChar(n)>>
    ELSE Digits(n \div 10) \o <<DigitChar(n % 10)>>

\* JSON values of a row: text, number, null
StrVal(s) == [t |-> "str", s |-> s, n |-> 0]
IntVal(n) == [t |-> "int", s |-> <<>>, n |-> n]
NullVal == [t |-> "null", s |-> <<>>, n |-> 0]

\* str(v)
Str(v) ==
    CASE v.t = "str" -> v.s
      [] v.t = "int" -> Digits(v.n)
      [] v.t = "null" -> <<"N", "o", "n", "e">>

\* s.replace("[", "/").replace("]", "")
RECURSIVE CleanColName(_)
CleanColName(s) ==
    IF s = <<>> THEN <<>>
    ELSE LET c == Head(s)
         IN  (IF c = "[" THEN <<"/">> ELSE IF c = "]" THEN <<>> ELSE <<c>>)
             \o CleanColName(Tail(s))

\* characters urllib.parse.quote leaves alone (unreserved, plus the safe "/")
QuoteSafe ==
    {"A", "B", "C", "D", "I", "N", "O", "T", "X",
     "a", "b", "c", "e", "l", "m", "n", "o", "p", "q", "r", "s", "t", "u", "x", "k",
     "0", "1", "2", "3", "4", "5", "6", "7", "8", "9",
     "_", ".", "-", "~", "/"}

\* percent-encoding of one character
QuoteChar(c) ==
    IF c \in QuoteSafe THEN <<c>>
    ELSE CASE c = " " -> <<"%", "2", "0">>
           [] c = "'" -> <<"%", "2", "7">>
           [] c = "[" -> <<"%", "5", "B">>
           [] c = "]" -> <<"%", "5", "D">>
           [] c = "|" -> <<"%", "7", "C">>
           [] c = ":" -> <<"%", "3", "A">>
           [] c = "?" -> <<"%", "3", "F">>
           [] c = "=" -> <<"%", "3", "D">>

RECURSIVE Quote(_)
\* urllib.parse.quote(s)
Quote(s) == IF s = <<>> THEN <<>> ELSE QuoteChar(Head(s)) \o Quote(Tail(s))

(***************************************************************************)
(* The row -> document mapping (lines 115-160).                            *)
(***************************************************************************)
\* list(row.values()): a row is its (key, val) pairs in column order
Values(row) == [i \in 1..Len(row) |-> row[i].val]

\* list(row.keys())
Keys(row) == [i \in 1..Len(row) |-> row[i].key]

\* variant: the table name left out of the id
DocumentId_NoTable(report_name, table_name, r_id) == report_name \o <<"_">> \o r_id

\* f"{report_name}_{table_name}_{r_id}"
DocumentId(report_name, table_name, r_id) ==
    report_name \o <<"_">> \o table_name \o <<"_">> \o r_id

\* r_title
Title(report_name, table_name, values) ==
    IF Len(values) > 1 THEN Str(values[2])
    ELSE report_name \o <<" ", "-", " ">> \o table_name

\* variant: another separator
Content_Comma(values) ==
    Join(<<",", " ">>, [i \in 1..Len(values) |-> Str(values[i])])

\* r_content
Content(values) ==
    Join(<<" ", "|", " ">>, [i \in 1..Len(values) |-> Str(values[i])])

\* variant: the report's link for every row
ViewUrl_Report(web_url, row) == web_url

\* final_url
ViewUrl(web_url, row) ==
    LET r_id == Str(Values(row)[1])
        clean_col_name == CleanColName(Keys(row)[1])
        raw_filter == clean_col_name \o <<" ", "e", "q", " ", "'">> \o r_id \o <<"'">>
    IN  web_url \o <<"?", "f", "i", "l", "t", "e", "r", "=">> \o Quote(raw_filter)

\* body.textContent
TextContent(report_name, table_name, values) ==
    <<"S", "o", "u", "r", "c", "e", ":", " ">> \o report_name
    \o <<" ", "/", " ">> \o table_name
    \o <<"\n", "D", "a", "t", "a", ":", " ">> \o Content(values)

\* payload["document"] for a row with at least one column
Payload(report, table_name, row) ==
    LET values == Values(row)
    IN  [datasource |-> DATASOURCE,
         id |-> DocumentId(report.name, table_name, Str(values[1])),
         title |-> Title(report.name, table_name, values),
         viewURL |-> ViewUrl(report.webUrl, row),
         mimeType |-> "text/plain",
         textContent |-> TextContent(report.name, table_name, values),
         allowAnonymousAccess |-> TRUE]

(***************************************************************************)
(* The remote services: what the Power BI REST API holds.                  *)
(***************************************************************************)
Name_A == <<"A">>
Name_A_B == <<"A", "_", "B">>
Table_B_C == <<"B", "_", "C">>
Table_C == <<"C">>
\* a proper prefix of the system prefix: an ordinary table
Table_DateTable == <<"D", "a", "t", "e", "T", "a", "b", "l", "e">>
Table_System == SystemPrefix \o <<"_", "x">>

Key_k == <<"T", "[", "k", "]">>
Key_n == <<"T", "[", "n", "]">>
Text_1001 == <<"1", "0", "0", "1">>
Text_North == <<"N", "o", "r", "t", "h">>

\* report["name"], report["datasetId"], report["webUrl"]
ReportPool ==
    { [name |-> Name_A, datasetId |-> 1, webUrl |-> <<"u", "1">>],
      [name |-> Name_A_B, datasetId |-> 2, webUrl |-> <<"u", "2">>],
      [name |-> Name_A, datasetId |-> 2, webUrl |-> <<"u", "3">>] }

\* GET datasets/{dataset_id}/tables -> value[*].name
DatasetTables(dataset_id) ==
    IF dataset_id = 1 THEN <<Table_B_C, Table_System>>
    ELSE <<Table_C, Table_DateTable>>

\* POST datasets/{dataset_id}/executeQueries -> results[0].tables[0].rows
TableRows(dataset_id, table_name) ==
    CASE dataset_id = 1 /\ table_name = Table_B_C ->
            << <<[key |-> Key_k, val |-> IntVal(1001)],
                 [key |-> Key_n, val |-> StrVal(Text_North)]>>,
               <<>> >>
      [] dataset_id = 2 /\ table_name = Table_C ->
            << <<[key |-> Key_k, val |-> StrVal(Text_1001)]>>,
               <<[key |-> Key_k, val |-> NullVal],
                 [key |-> Key_n, val |-> StrVal(Text_North)]>> >>
      [] dataset_id = 2 /\ table_name = Table_DateTable ->
            << <<[key |-> Key_k, val |-> StrVal(<<>>)],
                 [key |-> Key_n, val |-> IntVal(7)]>> >>
      [] OTHER ->
            << <<[key |-> Key_k, val |-> IntVal(7)]>> >>

\* GET groups -> value[*]
Group_Other == [name |-> <<"O">>, id |-> 8]
Group_Target == [name |-> TARGET_WORKSPACE_NAME, id |-> 9]
GroupLists == { <<>>, <<Group_Other>>, <<Group_Other, Group_Target>> }

\* sequences of distinct reports, at most n long
ReportLists(n) ==
    UNION { { s \in [1..k -> ReportPool] : \A i, j \in 1..k : s[i] = s[j] => i = j }
            : k \in 0..n }

\* status codes a remote call answers with
Statuses == {HTTP_OK, 500}

(***************************************************************************)
(* State.                                                                  *)
(***************************************************************************)
Scheduler == "scheduler"
Handlers == {"sync1", "sync2"}
Threads == {Scheduler} \cup Handlers

VARIABLES
    world,      \* environment variables and remote contents, fixed per behaviour
    frame,      \* per thread: position and locals of sync_powerbi_to_glean
    calls,      \* per thread: the remote calls of its current run, in order
    response,   \* per handler: the HTTP response of its last /sync request
    nruns,      \* runs started so far
    index,      \* the remote index: document id -> document
    log_tail    \* the latest line of logger "Connector": thread and source line

vars == <<world, frame, calls, response, nruns, index, log_tail>>

IdleFrame ==
    [pc |-> "idle", token |-> "None", ws_id |-> 0, reports |-> <<>>,
     report_i |-> 0, tables |-> <<>>, table_i |-> 0, rows |-> <<>>, row_i |-> 0,
     count |-> 0, total_indexed |-> 0, ret |-> "None"]

\* one remote call, as the remote side saw it
\* result: "ok", "fail" (answered, but not with what was asked for), "raise"
Call(op, arg, report_i, table, row_i, doc, result) ==
    [op |-> op, arg |-> arg, report_i |-> report_i, table |-> table,
     row_i |-> row_i, doc |-> doc, result |-> result]

Result(raises, good) == IF raises THEN "raise" ELSE IF good THEN "ok" ELSE "fail"

Worlds(reportLists) ==
    [creds : BOOLEAN, groups : GroupLists, reports : reportLists]

InitLocal ==
    /\ frame = [t \in Threads |-> IdleFrame]
    /\ calls = [t \in Threads |-> <<>>]
    /\ response = [h \in Handlers |-> "none"]
    /\ nruns = 0
    /\ index = <<>>
    /\ log_tail = [thread |-> "none", line |-> 0]

\* the whole process, over a workspace that is empty or holds the one report
\* of dataset 1
ProcessReportLists ==
    {<<>>} \cup { <<r>> : r \in { p \in ReportPool : p.datasetId = 1 } }

Init == world \in Worlds(ProcessReportLists) /\ InitLocal

\* one thread, workspaces of up to MaxReports reports
InitRun == world \in Worlds(ReportLists(MaxReports)) /\ InitLocal

\* the workspaces of two reports, among them report "A" with table "B_C"
\* beside report "A_B" with table "C"
RetryReportLists == { s \in [1..2 -> ReportPool] : s[1] # s[2] }

InitRetry == world \in Worlds(RetryReportLists) /\ InitLocal

(***************************************************************************)
(* Conditions of the code.                                                 *)
(***************************************************************************)
\* line 51: not token
TokenMissing(tok) == tok \in {"None", ""}

\* variant: the status is not looked at
StatusOk_Any(status_code) == TRUE

\* lines 83, 103, 168: status_code == 200
StatusOk(status_code) == status_code = HTTP_OK

\* variants of the prefix test: equality, and the shorter prefix "Date"
IsSystemTable_Exact(table_name) == table_name = SystemPrefix

IsSystemTable_Short(table_name) == StartsWith(table_name, <<"D", "a", "t", "e">>)

\* line 92: table_name.startswith("DateTableTemplate")
IsSystemTable(table_name) == StartsWith(table_name, SystemPrefix)

\* line 125: not values
NoValues(values) == values = <<>>

\* variant: the first workspace, whatever its name
TargetGroup_First(groups) == IF groups = <<>> THEN <<>> ELSE <<Head(groups)>>

RECURSIVE TargetGroup(_)
\* line 57: next((g for g in groups if g["name"] == TARGET_WORKSPACE_NAME), None)
TargetGroup(groups) ==
    IF groups = <<>> THEN <<>>
    ELSE IF Head(groups).name = TARGET_WORKSPACE_NAME THEN <<Head(groups)>>
    ELSE TargetGroup(Tail(groups))

(***************************************************************************)
(* Entry points.                                                           *)
(***************************************************************************)
\* a logger call of thread t at a source line
Info(t, line) == log_tail' = [thread |-> t, line |-> line]

\* variant: the locals outlive the call
Unwind_Keep(f) == [f EXCEPT !.pc = "idle"]

\* the call is over: its locals are gone
Unwind(f) == IdleFrame

\* lines 168-169: a publish answered with another status is counted nowhere
FailedCount(f) == 0

\* variant: the first document of an id stays
IndexDocument_KeepFirst(idx, document) == idx @@ (document.id :> document)

\* the index endpoint stores the document under its id
IndexDocument(idx, document) == (document.id :> document) @@ idx

\* line 49
Enter(t) ==
    /\ frame[t].pc = "idle"
    /\ nruns < MaxRuns
    /\ nruns' = nruns + 1
    /\ frame' = [frame EXCEPT ![t] = [IdleFrame EXCEPT !.pc = "token"]]
    /\ calls' = [calls EXCEPT ![t] = <<>>]
    /\ Info(t, 49)
    /\ UNCHANGED index

\* lines 177-179: the interval job fires (one instance of the job at a time)
SchedulerFire ==
    /\ Enter(Scheduler)
    /\ UNCHANGED <<world, response>>

\* lines 184-186: a /sync request is taken by a worker thread
ManualSync(h) ==
    /\ Enter(h)
    /\ response' = [response EXCEPT ![h] = "none"]
    /\ UNCHANGED world

\* line 187, or the framework's answer to an uncaught exception
Respond(h) ==
    /\ frame[h].pc \in {"returned", "raised"}
    /\ response' = [response EXCEPT ![h] =
            IF frame[h].pc = "returned" THEN "Check Logs" ELSE "500"]
    /\ frame' = [frame EXCEPT ![h] = Unwind(@)]
    /\ calls' = [calls EXCEPT ![h] = <<>>]
    /\ UNCHANGED <<world, nruns, index, log_tail>>

\* the job function returned or raised: the executor is free again
JobEnd ==
    /\ frame[Scheduler].pc \in {"returned", "raised"}
    /\ frame' = [frame EXCEPT ![Scheduler] = Unwind(@)]
    /\ calls' = [calls EXCEPT ![Scheduler] = <<>>]
    /\ UNCHANGED <<world, response, nruns, index, log_tail>>

(***************************************************************************)
(* sync_powerbi_to_glean, one action per remote call or loop decision.     *)
(***************************************************************************)
Log(t, c) == calls' = [calls EXCEPT ![t] = Append(@, c)]

Return(t, value) ==
    frame' = [frame EXCEPT ![t].pc = "returned", ![t].ret = value]

Raise(t) == frame' = [frame EXCEPT ![t].pc = "raised"]

\* lines 28-31, 50-51: credentials missing, no token request is made
NoCredentials(t) ==
    /\ frame[t].pc = "token"
    /\ ~world.creds
    /\ Return(t, "Auth Failed")
    /\ Info(t, 30)
    /\ UNCHANGED <<world, calls, response, nruns, index>>

\* lines 33-46, 50-52: the token request
GetAccessToken(t) ==
    /\ frame[t].pc = "token"
    /\ world.creds
    /\ \E raises \in BOOLEAN, tok \in {"None", "", "eyJ"} :
         /\ Log(t, Call("token", 0, 0, <<>>, 0, <<>>, Result(raises, tok = "eyJ")))
         /\ IF raises THEN Raise(t)
            ELSE IF TokenMissing(tok) THEN Return(t, "Auth Failed")
            ELSE frame' = [frame EXCEPT ![t].pc = "groups", ![t].token = tok]
    /\ UNCHANGED <<world, response, nruns, index, log_tail>>

\* lines 55-64: find the workspace
FindWorkspace(t) ==
    /\ frame[t].pc = "groups"
    /\ \E raises \in BOOLEAN, has_value \in BOOLEAN :
         LET groups == IF has_value THEN world.groups ELSE <<>>
             target_group == TargetGroup(groups)
         IN  /\ Log(t, Call("groups", 0, 0, <<>>, 0, <<>>, Result(raises, has_value)))
             /\ IF raises THEN Raise(t)
                ELSE IF target_group = <<>> THEN Return(t, "Workspace Missing")
                ELSE frame' = [frame EXCEPT ![t].pc = "reports",
                                            ![t].ws_id = target_group[1].id]
             /\ IF raises THEN UNCHANGED log_tail
                ELSE IF target_group = <<>> THEN Info(t, 60)
                ELSE Info(t, 64)
    /\ UNCHANGED <<world, response, nruns, index>>

\* lines 67-71: the reports of the workspace
GetReports(t) ==
    /\ frame[t].pc = "reports"
    /\ \E raises \in BOOLEAN, has_value \in BOOLEAN :
         /\ Log(t, Call("reports", frame[t].ws_id, 0, <<>>, 0, <<>>,
                        Result(raises, has_value)))
         /\ IF raises THEN Raise(t)
            ELSE frame' = [frame EXCEPT
                    ![t].pc = "report_loop",
                    ![t].reports = IF has_value THEN world.reports ELSE <<>>,
                    ![t].report_i = 0,
                    ![t].total_indexed = 0]
         /\ IF raises THEN UNCHANGED log_tail ELSE Info(t, 69)
    /\ UNCHANGED <<world, response, nruns, index>>

\* lines 73, 174-175: no report left
ReportsExhausted(t) ==
    /\ frame[t].pc = "report_loop"
    /\ frame[t].report_i = Len(frame[t].reports)
    /\ Return(t, "Done")
    /\ Info(t, 174)
    /\ UNCHANGED <<world, calls, response, nruns, index>>

\* lines 73-87: next report, discover its tables
GetTables(t) ==
    /\ frame[t].pc = "report_loop"
    /\ frame[t].report_i < Len(frame[t].reports)
    /\ LET i == frame[t].report_i + 1
           report == frame[t].reports[i]
       IN  \E raises \in BOOLEAN, status_code \in Statuses :
             /\ Log(t, Call("tables", report.datasetId, i, <<>>, 0, <<>>,
                            Result(raises, status_code = HTTP_OK)))
             /\ IF raises THEN Raise(t)
                ELSE IF ~StatusOk(status_code)
                THEN frame' = [frame EXCEPT ![t].report_i = i]
                ELSE frame' = [frame EXCEPT
                        ![t].pc = "table_loop",
                        ![t].report_i = i,
                        ![t].tables = DatasetTables(report.datasetId),
                        ![t].table_i = 0]
             /\ IF ~raises /\ ~StatusOk(status_code) THEN Info(t, 84)
                ELSE Info(t, 77)
    /\ UNCHANGED <<world, response, nruns, index>>

\* line 89: no table left in this report
TablesExhausted(t) ==
    /\ frame[t].pc = "table_loop"
    /\ frame[t].table_i = Len(frame[t].tables)
    /\ frame' = [frame EXCEPT ![t].pc = "report_loop"]
    /\ UNCHANGED <<world, calls, response, nruns, index, log_tail>>

\* lines 89-92: a system table is passed over
SkipSystemTable(t) ==
    /\ frame[t].pc = "table_loop"
    /\ frame[t].table_i < Len(frame[t].tables)
    /\ IsSystemTable(frame[t].tables[frame[t].table_i + 1])
    /\ frame' = [frame EXCEPT ![t].table_i = @ + 1]
    /\ UNCHANGED <<world, calls, response, nruns, index, log_tail>>

\* lines 89-114: query the next table
QueryTable(t) ==
    /\ frame[t].pc = "table_loop"
    /\ frame[t].table_i < Len(frame[t].tables)
    /\ LET i == frame[t].table_i + 1
           table_name == frame[t].tables[i]
           dataset_id == frame[t].reports[frame[t].report_i].datasetId
       IN  /\ ~IsSystemTable(table_name)
           /\ \E raises \in BOOLEAN, status_code \in Statuses, parses \in BOOLEAN :
                /\ Log(t, Call("query", dataset_id, frame[t].report_i, table_name,
                               0, <<>>,
                               Result(raises, status_code = HTTP_OK /\ parses)))
                /\ IF raises THEN Raise(t)
                   ELSE IF ~StatusOk(status_code) \/ ~parses
                   THEN frame' = [frame EXCEPT ![t].table_i = i]
                   ELSE frame' = [frame EXCEPT
                           ![t].pc = "row_loop",
                           ![t].table_i = i,
                           ![t].rows = TableRows(dataset_id, table_name),
                           ![t].row_i = 0,
                           ![t].count = 0]
                /\ IF ~raises /\ ~StatusOk(status_code) THEN Info(t, 105)
                   ELSE Info(t, 94)
    /\ UNCHANGED <<world, response, nruns, index>>

\* lines 115, 171-172: no row left in this table
RowsExhausted(t) ==
    /\ frame[t].pc = "row_loop"
    /\ frame[t].row_i = Len(frame[t].rows)
    /\ frame' = [frame EXCEPT ![t].pc = "table_loop",
                              ![t].total_indexed = @ + frame[t].count]
    /\ Info(t, 172)
    /\ UNCHANGED <<world, calls, response, nruns, index>>

\* lines 115-125: a row without columns is passed over
SkipEmptyRow(t) ==
    /\ frame[t].pc = "row_loop"
    /\ frame[t].row_i < Len(frame[t].rows)
    /\ NoValues(Values(frame[t].rows[frame[t].row_i + 1]))
    /\ frame' = [frame EXCEPT ![t].row_i = @ + 1]
    /\ UNCHANGED <<world, calls, response, nruns, index, log_tail>>

\* lines 115-169: map the next row and send it to the index
PublishRow(t) ==
    /\ frame[t].pc = "row_loop"
    /\ frame[t].row_i < Len(frame[t].rows)
    /\ LET i == frame[t].row_i + 1
           row == frame[t].rows[i]
           report == frame[t].reports[frame[t].report_i]
           table_name == frame[t].tables[frame[t].table_i]
       IN  /\ ~NoValues(Values(row))
           /\ \E raises \in BOOLEAN, status_code \in Statuses :
                /\ Log(t, Call("publish", report.datasetId, frame[t].report_i,
                               table_name, i,
                               <<Payload(report, table_name, row)>>,
                               Result(raises, status_code = HTTP_OK)))
                /\ IF raises THEN Raise(t)
                   ELSE frame' = [frame EXCEPT
                           ![t].row_i = i,
                           ![t].count = IF StatusOk(status_code) THEN @ + 1 ELSE @]
                \* a request that raised may or may not have reached the index
                /\ index' = IF status_code = HTTP_OK
                             THEN IndexDocument(index, Payload(report, table_name, row))
                             ELSE index
    /\ UNCHANGED <<world, response, nruns, log_tail>>

Step(t) ==
    \/ NoCredentials(t)
    \/ GetAccessToken(t)
    \/ FindWorkspace(t)
    \/ GetReports(t)
    \/ ReportsExhausted(t)
    \/ GetTables(t)
    \/ TablesExhausted(t)
    \/ SkipSystemTable(t)
    \/ QueryTable(t)
    \/ RowsExhausted(t)
    \/ SkipEmptyRow(t)
    \/ PublishRow(t)

Next ==
    \/ SchedulerFire
    \/ JobEnd
    \/ \E h \in Handlers : ManualSync(h)
    \/ \E h \in Handlers : Respond(h)
    \/ \E t \in Threads : Step(t)

Spec == Init /\ [][Next]_vars

\* the first firing of the interval job
FirstFire == nruns = 0 /\ SchedulerFire

\* one run of the scheduled job
NextRun ==
    \/ FirstFire
    \/ JobEnd
    \/ Step(Scheduler)

SpecRun == InitRun /\ [][NextRun]_vars

\* the scheduled job firing again and again over the same remote contents
NextRetry ==
    \/ SchedulerFire
    \/ JobEnd
    \/ Step(Scheduler)

SpecRetry == InitRetry /\ [][NextRetry]_vars

(***************************************************************************)
(* Vocabulary of the properties.                                           *)
(***************************************************************************)
\* sync_powerbi_to_glean is executing in thread t
Active(t) == frame[t].pc \notin {"idle", "returned", "raised"}

\* positions of the calls of one kind in the log of thread t
CallsOf(t, op) == { i \in 1..Len(calls[t]) : calls[t][i].op = op }

\* the workspace list holds a group of the target name
WorkspaceListed == \E i \in 1..Len(world.groups) : world.groups[i].name = TARGET_WORKSPACE_NAME

(***************************************************************************)
(* C1.  At most one execution of sync_powerbi_to_glean is active in the    *)
(* process at any time: a run triggered while another is in progress is    *)
(* rejected or starts only after the first has ended.                      *)
(* The code takes no lock: the statement is violated.                      *)
(***************************************************************************)
C1_AtMostOneRunActive == Cardinality({ t \in Threads : Active(t) }) <= 1

(***************************************************************************)
(* C8.  /sync is non-blocking: whenever the run a request started is still *)
(* executing, the acknowledgment can already be returned.                  *)
(* manual_sync calls the run inline: the statement is violated.            *)
(***************************************************************************)
C8_SyncRespondsWithoutWaiting == \A h \in Handlers : Active(h) => ENABLED Respond(h)

(***************************************************************************)
(* C9.  Whatever the outcome of the run it started, /sync answers with the *)
(* same success acknowledgment.                                            *)
(* An exception of a remote call leaves manual_sync: the statement is      *)
(* violated.                                                               *)
(***************************************************************************)
C9_SyncAlwaysAcknowledges == \A h \in Handlers : response[h] \in {"none", "Check Logs"}

(***************************************************************************)
(* C10.  A fatal error aborts the run early.  When no access token is      *)
(* obtained (credentials missing, or the token request answers without a   *)
(* token) the run returns "Auth Failed" having made no call after the      *)
(* token request; when the workspace list does not hold the target the run *)
(* returns "Workspace Missing" having made no call after the groups call.  *)
(* No report list, table list, query or publish call is made and nothing   *)
(* is indexed.                                                             *)
(***************************************************************************)
C10_FatalErrorAbortsEarly ==
    \A t \in Threads :
      LET c == calls[t]
          pastToken == frame[t].pc \notin {"idle", "token", "raised"}
          noToken == ~world.creds \/ (c # <<>> /\ c[1].result = "fail")
          noWorkspace == /\ Len(c) >= 2
                         /\ c[2].op = "groups"
                         /\ c[2].result = "fail" \/ (c[2].result = "ok" /\ ~WorkspaceListed)
      IN  /\ pastToken /\ noToken =>
                /\ frame[t].pc = "returned"
                /\ frame[t].ret = "Auth Failed"
                /\ Len(c) <= 1
                /\ frame[t].total_indexed = 0
          /\ noWorkspace =>
                /\ frame[t].pc = "returned"
                /\ frame[t].ret = "Workspace Missing"
                /\ Len(c) = 2
                /\ frame[t].total_indexed = 0

\* a workspace with reports is out of reach: the run returned after two calls
C10_Witness ==
    /\ frame[Scheduler].pc = "returned"
    /\ frame[Scheduler].ret = "Workspace Missing"
    /\ world.groups # <<>>
    /\ world.reports # <<>>
    /\ Len(calls[Scheduler]) = 2

(***************************************************************************)
(* C3.  No query and no publish is ever issued for a table whose name      *)
(* starts with the system prefix "DateTableTemplate".                      *)
(***************************************************************************)
C3_SystemTablesNeverQueried ==
    \A t \in Threads : \A i \in 1..Len(calls[t]) :
        calls[t][i].op \in {"query", "publish"}
            => ~StartsWith(calls[t][i].table, SystemPrefix)

\* the run went past a discovered system table and on to the end
C3_Witness ==
    /\ frame[Scheduler].pc = "returned"
    /\ frame[Scheduler].ret = "Done"
    /\ \E i \in 1..Len(frame[Scheduler].tables) :
            StartsWith(frame[Scheduler].tables[i], SystemPrefix)
    /\ CallsOf(Scheduler, "query") # {}

(***************************************************************************)
(* What a run was given and what it sent, read from its call log.          *)
(***************************************************************************)
\* the report list the run of thread t obtained
ObtainedReports(t) ==
    IF \E i \in CallsOf(t, "reports") : calls[t][i].result = "ok"
    THEN world.reports ELSE <<>>

\* the table list of report r was obtained
TablesObtained(t, r) ==
    \E i \in CallsOf(t, "tables") : calls[t][i].report_i = r /\ calls[t][i].result = "ok"

\* the query of table name of report r returned rows
RowsObtained(t, r, name) ==
    \E i \in CallsOf(t, "query") :
        /\ calls[t][i].report_i = r
        /\ calls[t][i].table = name
        /\ calls[t][i].result = "ok"

\* the names of a table list that do not start with the system prefix
OrdinaryTables(names) == SelectSeq(names, LAMBDA n : ~StartsWith(n, SystemPrefix))

\* the query calls of thread t in order, as <<report index, dataset, table>>
QueriesSent(t) ==
    LET q == SelectSeq(calls[t], LAMBDA c : c.op = "query")
    IN  [i \in 1..Len(q) |-> <<q[i].report_i, q[i].arg, q[i].table>>]

\* the documents of the publish calls of thread t in order
DocumentsSent(t) ==
    LET p == SelectSeq(calls[t], LAMBDA c : c.op = "publish")
    IN  [i \in 1..Len(p) |-> p[i].doc[1]]

\* the run of thread t returned "Done"
Done(t) == frame[t].pc = "returned" /\ frame[t].ret = "Done"

C7_DocumentIdsUniqueAcrossTables ==
    \A t \in Threads : \A i, j \in CallsOf(t, "publish") :
        LET a == calls[t][i]
            b == calls[t][j]
        IN  <<world.reports[a.report_i].name, a.table>>
                # <<world.reports[b.report_i].name, b.table>>
            => a.doc[1].id # b.doc[1].id

(***************************************************************************)
(* C4.  As stated: in a run that obtains the workspace contents, every     *)
(* non-system (dataset, table) pair of the workspace is queried exactly    *)
(* once, in discovery order.                                               *)
(* The run walks reports, not datasets: a dataset behind two reports is    *)
(* queried once per report, so the statement is violated.                  *)
(***************************************************************************)
\* <<dataset, table>> of the ordinary tables of a dataset, in table order
PairsOfDataset(d) ==
    LET names == OrdinaryTables(DatasetTables(d))
    IN  [i \in 1..Len(names) |-> <<d, names[i]>>]

RECURSIVE PairsOfWorkspace(_, _)
\* the pairs of the datasets behind the reports, each dataset once, in the
\* order the datasets are first met
PairsOfWorkspace(reports, seen) ==
    IF reports = <<>> THEN <<>>
    ELSE LET d == Head(reports).datasetId
         IN  (IF d \in seen THEN <<>> ELSE PairsOfDataset(d))
             \o PairsOfWorkspace(Tail(reports), seen \cup {d})

\* the run obtained the report list and the table list of every report
WorkspaceObtained(t) ==
    /\ \E i \in CallsOf(t, "reports") : calls[t][i].result = "ok"
    /\ \A r \in 1..Len(world.reports) : TablesObtained(t, r)

C4_EachDatasetTableQueriedOnce ==
    \A t \in Threads :
        Done(t) /\ WorkspaceObtained(t) =>
            [i \in 1..Len(QueriesSent(t)) |-> <<QueriesSent(t)[i][2], QueriesSent(t)[i][3]>>]
                = PairsOfWorkspace(world.reports, {})

(***************************************************************************)
(* C4, amended.  A run that returns "Done" has queried, for every report   *)
(* whose table list it obtained, every non-system table of that list       *)
(* exactly once, in report order and then in table order, and has sent no  *)
(* other query; a dataset behind several reports is queried once for each  *)
(* of them.                                                                *)
(***************************************************************************)
RECURSIVE QueriesDue(_, _, _)
\* the queries due for reports r, r+1, ... of the list
QueriesDue(t, reports, r) ==
    IF r > Len(reports) THEN <<>>
    ELSE LET d == reports[r].datasetId
             names == OrdinaryTables(DatasetTables(d))
         IN  (IF TablesObtained(t, r)
              THEN [i \in 1..Len(names) |-> <<r, d, names[i]>>]
              ELSE <<>>)
             \o QueriesDue(t, reports, r + 1)

C4_EachReportTableQueriedOnce ==
    \A t \in Threads :
        Done(t) => QueriesSent(t) = QueriesDue(t, ObtainedReports(t), 1)

\* two reports on dataset 2: its tables were queried twice, DateTable included
C4_Witness ==
    /\ Done(Scheduler)
    /\ WorkspaceObtained(Scheduler)
    /\ Len(world.reports) = 2
    /\ world.reports[1].datasetId = world.reports[2].datasetId
    /\ Len(QueriesSent(Scheduler)) = 4
    /\ QueriesSent(Scheduler)[4] = <<2, 2, Table_DateTable>>

(***************************************************************************)
(* C2.  A query that answers with a status other than 200, or with a body  *)
(* that holds no rows, is contained: no document of that table is sent,    *)
(* the next call is the query of the next table (or the table list of the  *)
(* next report), the failure never ends the run, a run that returns        *)
(* returns "Done", and the documents of a finished run are those of the    *)
(* tables whose queries returned rows, as if the failed table were absent. *)
(***************************************************************************)
RECURSIVE DocumentsOfRows(_, _, _)
\* the documents of the rows that have a column, in row order
DocumentsOfRows(report, name, rows) ==
    IF rows = <<>> THEN <<>>
    ELSE (IF Len(Head(rows)) >= 1 THEN <<Payload(report, name, Head(rows))>> ELSE <<>>)
         \o DocumentsOfRows(report, name, Tail(rows))

RECURSIVE DocumentsOfTables(_, _, _, _)
\* the documents of the tables of report r whose query returned rows
DocumentsOfTables(t, reports, r, names) ==
    IF names = <<>> THEN <<>>
    ELSE (IF RowsObtained(t, r, Head(names))
          THEN DocumentsOfRows(reports[r], Head(names),
                               TableRows(reports[r].datasetId, Head(names)))
          ELSE <<>>)
         \o DocumentsOfTables(t, reports, r, Tail(names))

RECURSIVE DocumentsDue(_, _, _)
\* the documents due for reports r, r+1, ... of the list
DocumentsDue(t, reports, r) ==
    IF r > Len(reports) THEN <<>>
    ELSE (IF TablesObtained(t, r)
          THEN DocumentsOfTables(t, reports, r,
                                 OrdinaryTables(DatasetTables(reports[r].datasetId)))
          ELSE <<>>)
         \o DocumentsDue(t, reports, r + 1)

\* call c is what follows table `name` of report r: the query of the next
\* ordinary table of the report, or the table list of the next report
FollowsTable(t, c, r, name) ==
    LET names == OrdinaryTables(DatasetTables(world.reports[r].datasetId))
        k == CHOOSE i \in 1..Len(names) : names[i] = name
    IN  IF k < Len(names)
        THEN c.op = "query" /\ c.report_i = r /\ c.table = names[k + 1]
        ELSE c.op = "tables" /\ c.report_i = r + 1

C2_QueryFailureIsolated ==
    \A t \in Threads :
      LET c == calls[t]
      IN  /\ \A i \in CallsOf(t, "query") :
                c[i].result = "fail" =>
                  /\ \A j \in CallsOf(t, "publish") :
                        ~(c[j].report_i = c[i].report_i /\ c[j].table = c[i].table)
                  /\ i < Len(c) => FollowsTable(t, c[i + 1], c[i].report_i, c[i].table)
                  /\ i = Len(c) => Active(t) \/ Done(t)
                  /\ frame[t].pc = "returned" => frame[t].ret = "Done"
          /\ Done(t) => DocumentsSent(t) = DocumentsDue(t, ObtainedReports(t), 1)

\* the first table's query failed, the second table's rows were sent, the run
\* returned "Done"
C2_Witness ==
    /\ Done(Scheduler)
    /\ \E i \in CallsOf(Scheduler, "query") :
         /\ calls[Scheduler][i].result = "fail"
         /\ i + 2 <= Len(calls[Scheduler])
         /\ calls[Scheduler][i + 1].op = "query"
         /\ calls[Scheduler][i + 1].result = "ok"
         /\ calls[Scheduler][i + 2].op = "publish"

(***************************************************************************)
(* C18.  A table-list call that answers with a status other than 200 is    *)
(* contained in its report: no query and no publish is issued for that     *)
(* report, the next call is the table list of the next report, the failure *)
(* never ends the run, and a run that returns returns "Done".              *)
(***************************************************************************)
C18_DiscoveryFailureIsolated ==
    \A t \in Threads :
      LET c == calls[t]
      IN  \A i \in CallsOf(t, "tables") :
            c[i].result = "fail" =>
              /\ \A j \in CallsOf(t, "query") \cup CallsOf(t, "publish") :
                    c[j].report_i # c[i].report_i
              /\ i < Len(c) => c[i + 1].op = "tables" /\ c[i + 1].report_i = c[i].report_i + 1
              /\ i = Len(c) => Active(t) \/ Done(t)
              /\ frame[t].pc = "returned" => frame[t].ret = "Done"

\* the first report's table list failed, the second report's rows were sent,
\* the run returned "Done"
C18_Witness ==
    /\ Done(Scheduler)
    /\ \E i \in CallsOf(Scheduler, "tables") :
         /\ calls[Scheduler][i].result = "fail"
         /\ calls[Scheduler][i].report_i = 1
         /\ \E j \in CallsOf(Scheduler, "publish") : calls[Scheduler][j].report_i = 2

(***************************************************************************)
(* C15.  As stated: the textContent of every document is exactly the text  *)
(* of the row's column values joined with " | ", nothing before or after.  *)
(* The code puts a "Source: ... Data: " header first: the statement is     *)
(* violated.                                                               *)
(***************************************************************************)
RECURSIVE JoinedFrom(_, _)
\* the text of columns i, i+1, ... of a row, " | " between neighbours
JoinedFrom(row, i) ==
    IF i > Len(row) THEN <<>>
    ELSE (IF i > 1 THEN <<" ", "|", " ">> ELSE <<>>)
         \o Str(row[i].val) \o JoinedFrom(row, i + 1)

\* the row a publish call was made for
RowOf(c) == TableRows(c.arg, c.table)[c.row_i]

C15_TextContentIsJoinedValues ==
    \A t \in Threads : \A i \in CallsOf(t, "publish") :
        calls[t][i].doc[1].textContent = JoinedFrom(RowOf(calls[t][i]), 1)

(***************************************************************************)
(* C15, amended.  The textContent of every document is                     *)
(* "Source: " + report name + " / " + table name + "\nData: " followed by  *)
(* the text of the row's column values joined with " | " in column order,  *)
(* and nothing after it.                                                   *)
(***************************************************************************)
C15_TextContentIsHeaderAndJoinedValues ==
    \A t \in Threads : \A i \in CallsOf(t, "publish") :
        LET c == calls[t][i]
        IN  c.doc[1].textContent =
              <<"S", "o", "u", "r", "c", "e", ":", " ">>
              \o world.reports[c.report_i].name
              \o <<" ", "/", " ">> \o c.table
              \o <<"\n", "D", "a", "t", "a", ":", " ">>
              \o JoinedFrom(RowOf(c), 1)

\* report "A", table "B_C", row (1001, "North")
C15_Witness ==
    \E i \in CallsOf(Scheduler, "publish") :
        calls[Scheduler][i].doc[1].textContent =
            <<"S", "o", "u", "r", "c", "e", ":", " ", "A", " ", "/", " ",
              "B", "_", "C", "\n", "D", "a", "t", "a", ":", " ",
              "1", "0", "0", "1", " ", "|", " ", "N", "o", "r", "t", "h">>

Published(t, result) ==
    { i \in CallsOf(t, "publish") : calls[t][i].result = result }

\* the indexed total of a finished run is the number of its publish calls
\* answered with 200
TotalsOwn ==
    \A t \in Threads :
        Done(t) => frame[t].total_indexed = Cardinality(Published(t, "ok"))

C11_PublishAccounting ==
    \A t \in Threads :
      /\ \A i, j \in CallsOf(t, "publish") :
            /\ calls[t][i].report_i = calls[t][j].report_i
            /\ calls[t][i].table = calls[t][j].table
            /\ calls[t][i].row_i = calls[t][j].row_i
            => i = j
      /\ calls[t] # <<>> /\ calls[t][Len(calls[t])].op = "publish"
            /\ calls[t][Len(calls[t])].result = "fail"
            => Active(t) \/ Done(t)
      /\ Done(t) =>
            /\ frame[t].total_indexed = Cardinality(Published(t, "ok"))
            /\ frame[t].total_indexed + FailedCount(frame[t])
                 = Cardinality(CallsOf(t, "publish"))

(***************************************************************************)
(* C12.  Publishing is idempotent at the index.  Over unchanged remote     *)
(* contents, whenever a run returns "Done" with every call answered as     *)
(* asked, the index is the index of one complete run: each document id     *)
(* holds the last document the run sends under it, whatever earlier runs   *)
(* (stopped at any call, or complete) have left there.                     *)
(***************************************************************************)
\* every call of the run of thread t was answered as asked
Complete(t) ==
    Done(t) /\ \A i \in 1..Len(calls[t]) : calls[t][i].result = "ok"

\* the index a sequence of documents leaves when a later document replaces
\* an earlier one of the same id
IndexOf(documents) ==
    LET ids == { documents[i].id : i \in 1..Len(documents) }
        last(id) == CHOOSE i \in 1..Len(documents) :
                        /\ documents[i].id = id
                        /\ \A j \in (i + 1)..Len(documents) : documents[j].id # id
    IN  [id \in ids |-> documents[last(id)]]

C12_RetryConverges ==
    \A t \in Threads :
        Complete(t) => index = IndexOf(DocumentsDue(t, world.reports, 1))

\* a second run over report "A" (table "B_C") and report "A_B" (table "C")
\* has ended complete: A_B_C_1001 holds the document of the later table
C12_Witness ==
    /\ nruns = MaxRuns
    /\ Complete(Scheduler)
    /\ Len(world.reports) = 2
    /\ world.reports[1].datasetId # world.reports[2].datasetId
    /\ world.reports[1].name = Name_A
    /\ world.reports[2].name = Name_A_B
    /\ Cardinality(CallsOf(Scheduler, "publish")) > Cardinality(DOMAIN index)
    /\ index[<<"A", "_", "B", "_", "C", "_", "1", "0", "0", "1">>].title
         = <<"A", "_", "B", " ", "-", " ", "C">>

(***************************************************************************)
(* C13.  Overlapping runs.  The indexed total of every finished run is the *)
(* number of that run's own publish calls answered with 200, and the log   *)
(* lines of two runs are not interleaved: a line other than a run's first  *)
(* follows a line of the same thread.                                      *)
(* Nothing keeps two runs apart (C1): the statement is violated.           *)
(***************************************************************************)
C13_OverlappingRunsReportApart ==
    [][ /\ TotalsOwn'
        /\ log_tail' # log_tail /\ log_tail'.line # 49
              => log_tail'.thread = log_tail.thread ]_vars

(***************************************************************************)
(* C14.  Every run reaches a terminal outcome and reports it: when the run *)
(* has returned, the latest log line is the line of its outcome (the error *)
(* line of a fatal outcome, or "Sync Complete").                           *)
(* A token request answered without a token ends the run with no line:     *)
(* the statement is violated.                                              *)
(***************************************************************************)
C14_TerminalOutcomeReported ==
    \A t \in Threads :
        frame[t].pc = "returned" =>
            log_tail.thread = t /\ log_tail.line \in {30, 60, 174}

\* the position of the run of thread t in its loops
Position(t) ==
    LET f == frame[t]
        top == CASE f.pc = "idle" -> 0
                 [] f.pc = "token" -> 1
                 [] f.pc = "groups" -> 2
                 [] f.pc = "reports" -> 3
                 [] f.pc \in {"report_loop", "table_loop", "row_loop"} -> 4
                 [] OTHER -> 5
    IN  <<top,
          2 * f.report_i + (IF f.pc = "report_loop" THEN 1 ELSE 0),
          2 * f.table_i + (IF f.pc = "table_loop" THEN 1 ELSE 0),
          f.row_i>>

\* lexicographic order of positions
Before(p, q) ==
    \E k \in 1..Len(p) : p[k] < q[k] /\ \A j \in 1..(k - 1) : p[j] = q[j]

\* every step of a run moves it forward through finite lists: no step waits
\* or repeats
RunAdvances ==
    [][ \A t \in Threads :
          frame[t].pc # "idle" /\ frame'[t] # frame[t] /\ frame'[t].pc # "idle"
              => Before(Position(t), Position(t)') ]_vars

(***************************************************************************)
(* C17.  A run leaves nothing behind in the process: a thread that is not  *)
(* in a run holds no locals and no calls, and the outcome and the indexed  *)
(* total of a run that has returned are given by the configuration and the *)
(* answers to that run's own calls.                                        *)
(***************************************************************************)
\* the outcome the answers of the run's own calls give
OutcomeOf(t) ==
    LET c == calls[t]
    IN  IF ~world.creds \/ c[1].result = "fail" THEN "Auth Failed"
        ELSE IF c[2].result = "fail" \/ ~WorkspaceListed THEN "Workspace Missing"
        ELSE "Done"

C17_RunLeavesNoState ==
    \A t \in Threads :
      /\ frame[t].pc = "idle" => frame[t] = IdleFrame /\ calls[t] = <<>>
      /\ frame[t].pc = "returned" =>
            /\ frame[t].ret = OutcomeOf(t)
            /\ frame[t].total_indexed = Cardinality(Published(t, "ok"))

\* a later run has returned "Done" with a total of 0 although its one
\* publish call failed on a document an earlier run had indexed
C17_Witness ==
    /\ nruns = MaxRuns
    /\ Done(Scheduler)
    /\ frame[Scheduler].total_indexed = 0
    /\ \E i \in Published(Scheduler, "fail") :
          calls[Scheduler][i].doc[1].id \in DOMAIN index

====
